---- MODULE Spec2Model ----
(***************************************************************************)
(* Process orchestration of scripts/west_9p.py: the west commands          *)
(* `9p-serve` (NinePServe.do_run) and `9p-run` (NinePRun.do_run).           *)
(*                                                                         *)
(* One operator runs the commands one after the other (at most             *)
(* MaxSessions invocations).  The world outlives an invocation: the        *)
(* filesystem entry at the socket path and the pipelines already spawned   *)
(* (a daemon pipeline, or a pipeline an invocation left behind).           *)
(*                                                                         *)
(* A pipeline is the shell command "9pex DIR | 9pserve ADDR": three        *)
(* processes, the shell and its two children.  The children are external   *)
(* tools; they run concurrently with the orchestrator, so their steps      *)
(* (bind the socket, exit) interleave freely with the steps of do_run.     *)
(***************************************************************************)
EXTENDS Integers, Sequences, FiniteSets, TLC

\* ------------------------------------------------------------- bounds
MaxSessions == 2      \* invocations of a west command in one behaviour
MaxInterrupts == 1    \* SIGINTs delivered during one invocation
MaxExit == 2          \* the consumer exits with a code in 0..MaxExit

\* ---------------------------------------------------------- constants
SockPath == "/tmp/9p.sock"     \* default of --socket in both commands
Paths == {"", SockPath}        \* values of args.socket
Ports == {-1, 0, 5640}         \* values of args.port when -p is given
ExitCodes == 0..MaxExit
Tools == {"9pex", "9pserve", "qemu-system-i386"}
SigKinds == {"tty", "direct"}  \* Ctrl+C on the terminal (whole foreground
                               \* process group) / kill -INT <orchestrator>

VARIABLES
  env,          \* the tools installed: fixed during a behaviour
  fs,           \* the filesystem entry at SockPath
  pipes,        \* every pipeline spawned so far, in spawn order
  sess,         \* number of invocations started
  command,      \* "none" | "9p-serve" | "9p-run": the running invocation
  args,         \* its parsed arguments
  pc,           \* its position in do_run
  addr,         \* NinePServe.do_run: addr
  server_proc,  \* NinePRun.do_run: server_proc (0 = None, else index in pipes)
  consumer,     \* the QEMU child of subprocess.run
  pending,      \* how the try block of NinePRun.do_run was left
  outcome,      \* how do_run ended
  exitCode,     \* exit status of the west invocation
  intr,         \* SIGINTs delivered during this invocation
  hist          \* history of this invocation (observations, event trace)

vars == <<env, fs, pipes, sess, command, args, pc, addr, server_proc,
          consumer, pending, outcome, exitCode, intr, hist>>

NoAddr == [kind |-> "none", path |-> "", port |-> 0, text |-> <<>>]
NoArgs == [directory |-> "none", socket |-> "", port_given |-> FALSE,
           port |-> 0, daemon |-> FALSE, serve_dir |-> "none",
           build_dir |-> "none"]
NoConsumer == [state |-> "none", code |-> 0]
NoHist == [spawned |-> 0, sockAtCheck |-> "unchecked", consumers |-> 0,
           intrAt |-> "none", trace |-> <<>>]

\* --------------------------------------------------------- process groups
\* A pipeline started by os.system stays in the process group of the
\* orchestrator that started it (OrchPgid); os.setsid makes the shell of
\* pipeline p the leader of a new session and group.
OrchPgid == 0

\* Mutant: Popen without preexec_fn=os.setsid, the shell stays in the
\* orchestrator's group.
NewPgid_NoSetsid(p) == OrchPgid

NewPgid(p) == p

\* ------------------------------------------------------------ filesystem
NoEntry == [kind |-> "none", owner |-> 0]

\* Mutant: the entry is unlinked without asking whether it exists.
EntryExists_Unasked(path, e) == TRUE

\* os.path.exists(path) when e is the entry at SockPath: the empty path
\* never exists.
EntryExists(path, e) == path = SockPath /\ e.kind # "none"

\* os.unlink(path) raises on a directory (IsADirectoryError, or
\* PermissionError) and on a path with no entry (FileNotFoundError); it
\* removes any other entry.
UnlinkFails(path, e) == path # SockPath \/ e.kind \in {"none", "dir"}

PathExists(path) == EntryExists(path, fs)

\* `if os.path.exists(p): os.unlink(p)` as a function of the entry at the
\* path: whether it raises, whether it removed something, the entry after.
ClearStale(path, e) ==
  IF EntryExists(path, e)
  THEN IF UnlinkFails(path, e)
       THEN [raised |-> TRUE, removed |-> FALSE, entry |-> e]
       ELSE [raised |-> FALSE, removed |-> TRUE, entry |-> NoEntry]
  ELSE [raised |-> FALSE, removed |-> FALSE, entry |-> e]

\* ------------------------------------------------------------- pipelines
\* "9pex DIR | 9pserve ADDR" run by a shell.  A tool that is not installed
\* makes its side of the pipe fail to start (exit 127) while the shell
\* still starts the other side.  With a trailing "&" the shell starts the
\* pair in the background and exits at once.
SpawnPipe(mode, a, g) ==
  [mode |-> mode, addr |-> a, pgid |-> g,
   shell |-> IF mode = "daemon" THEN "exited" ELSE "running",
   exporter |-> IF "9pex" \in env.tools THEN "running" ELSE "failed",
   server |-> IF "9pserve" \in env.tools THEN "running" ELSE "failed",
   bound |-> FALSE, grpSig |-> 0, pidSig |-> 0]

Signalled(st) == IF st = "running" THEN "killed" ELSE st

\* server_proc.terminate(): Popen.send_signal polls first and sends SIGTERM
\* to the shell's pid alone, and only while the shell has not exited.
Terminate(ps, i) ==
  IF ps[i].shell = "running"
  THEN [ps EXCEPT ![i].shell = "killed", ![i].pidSig = @ + 1]
  ELSE ps

\* os.killpg(os.getpgid(server_proc.pid), SIGTERM): one SIGTERM to every
\* member of the shell's process group.  The shell is never reaped before
\* this call, so its pid and group still exist when it has exited.
Killpg(ps, i) ==
  [j \in 1..Len(ps) |->
     IF ps[j].pgid = ps[i].pgid
     THEN [ps[j] EXCEPT !.shell = Signalled(@), !.exporter = Signalled(@),
                        !.server = Signalled(@), !.grpSig = @ + 1]
     ELSE ps[j]]

\* The same signal when 9pex and 9pserve do not die of SIGTERM (they handle,
\* block or ignore it: their disposition is not the orchestrator's to
\* choose): the signal is delivered, the shell dies, the pair runs on.
KillpgSurvived(ps, i) ==
  [j \in 1..Len(ps) |->
     IF ps[j].pgid = ps[i].pgid
     THEN [ps[j] EXCEPT !.shell = Signalled(@), !.grpSig = @ + 1]
     ELSE ps[j]]

\* Ctrl+C: the terminal sends SIGINT to every process of the foreground
\* group g.  A background job of a shell without job control ("... &")
\* ignores SIGINT; the other members die of it.
TtySigint(ps, g) ==
  [j \in 1..Len(ps) |->
     IF ps[j].pgid = g /\ ps[j].mode # "daemon"
     THEN [ps[j] EXCEPT !.shell = Signalled(@), !.exporter = Signalled(@),
                        !.server = Signalled(@)]
     ELSE ps[j]]

Running(p) == p.exporter = "running" \/ p.server = "running"
Live(p) == p.server = "running" /\ p.bound

\* A pipeline none of whose processes is left: the process table no longer
\* holds it once the invocation that spawned it is over.
Gone ==
  [mode |-> "gone", addr |-> NoAddr, pgid |-> OrchPgid,
   shell |-> "exited", exporter |-> "exited", server |-> "exited",
   bound |-> FALSE, grpSig |-> 0, pidSig |-> 0]

Reap(ps) ==
  [j \in 1..Len(ps) |->
     IF Running(ps[j]) \/ ps[j].shell = "running" THEN ps[j] ELSE Gone]

\* --------------------------------------------------------------- endings
\* self.die(msg): SystemExit, exit status 1.
Die ==
  /\ pc' = "done"
  /\ outcome' = "died"
  /\ exitCode' = 1

\* An exception nobody catches leaves do_run: west prints a traceback.
Raise ==
  /\ pc' = "done"
  /\ outcome' = "raised"
  /\ exitCode' = 1

\* do_run returns (its return value is None): west exits with status 0.
Return(how) ==
  /\ pc' = "done"
  /\ outcome' = how
  /\ exitCode' = 0

Log(e) == [hist EXCEPT !.trace = Append(@, e)]

\* ------------------------------------------------------------------ Init
Init ==
  /\ env \in [tools : SUBSET Tools]
  /\ fs \in {NoEntry, [kind |-> "file", owner |-> 0],
             [kind |-> "dir", owner |-> 0]}
  /\ pipes = <<>>
  /\ sess = 0
  /\ command = "none"
  /\ args = NoArgs
  /\ pc = "idle"
  /\ addr = NoAddr
  /\ server_proc = 0
  /\ consumer = NoConsumer
  /\ pending = "none"
  /\ outcome = "none"
  /\ exitCode = 0
  /\ intr = 0
  /\ hist = NoHist

world == <<env, fs, pipes>>
locals == <<addr, server_proc, consumer, pending>>
ending == <<pc, outcome, exitCode>>

\* A new invocation starts when the previous one is over.
Fresh ==
  /\ pc \in {"idle", "done"}
  /\ sess < MaxSessions
  /\ sess' = sess + 1
  /\ addr' = NoAddr
  /\ server_proc' = 0
  /\ consumer' = NoConsumer
  /\ pending' = "none"
  /\ outcome' = "none"
  /\ exitCode' = 0
  /\ intr' = 0
  /\ hist' = NoHist
  /\ pipes' = Reap(pipes)
  /\ UNCHANGED <<env, fs>>

\* west 9p-serve [directory] [-s socket] [-p port] [-d]
InvokeServe(dir, sock, given, port, daemon) ==
  /\ Fresh
  /\ command' = "9p-serve"
  /\ args' = [NoArgs EXCEPT !.directory = dir, !.socket = sock,
                            !.port_given = given, !.port = port,
                            !.daemon = daemon]
  /\ pc' = "serve_check_dir"

\* west 9p-run [-s socket] [--serve-dir dir] [-d build-dir]
\* build is "built" when <build-dir>/zephyr/zephyr.elf exists.
InvokeRun(dir, sock, build) ==
  /\ Fresh
  /\ command' = "9p-run"
  /\ args' = [NoArgs EXCEPT !.serve_dir = dir, !.socket = sock,
                            !.build_dir = build]
  /\ pc' = "run_start"

\* ---------------------------------------------------- NinePServe.do_run
\* Path(args.directory).resolve().is_dir(), Path(args.serve_dir)...is_dir()
IsDir(dir) == dir = "ok"

\* _check_command(cmd): `which cmd` succeeds.
CheckCommand(tool) == tool \in env.tools

\* `if args.port:` is false for a missing port and for port 0.
PortRequested(a) == a.port_given /\ a.port # 0

\* "{args.port}" in an f-string: the decimal digits of the int, with a
\* leading "-" for a negative one.
Str(n) ==
  CASE n = -1 -> "-1"
    [] n = 0 -> "0"
    [] n = 5640 -> "5640"

\* f"unix!{path}": the address as the pieces of text it is made of.
UnixAddr(path) ==
  [kind |-> "unix", path |-> path, port |-> 0, text |-> <<"unix!", path>>]

\* addr = f"tcp!*!{args.port}" or f"unix!{args.socket}"
ServeAddr(a) ==
  IF PortRequested(a)
  THEN [kind |-> "tcp", path |-> "", port |-> a.port,
        text |-> <<"tcp!*!", Str(a.port)>>]
  ELSE UnixAddr(a.socket)

ServeCheckDir ==
  /\ pc = "serve_check_dir"
  /\ IF IsDir(args.directory)
     THEN pc' = "serve_check_tools" /\ UNCHANGED <<outcome, exitCode>>
     ELSE Die
  /\ UNCHANGED <<world, sess, command, args, locals, intr, hist>>

\* Mutant: the tools are not looked up before the socket is removed.
ServeCheckTools_Skipped ==
  /\ pc = "serve_check_tools"
  /\ pc' = "serve_addr"
  /\ UNCHANGED <<world, sess, command, args, locals, intr, hist, outcome,
                 exitCode>>

ServeCheckTools ==
  /\ pc = "serve_check_tools"
  /\ IF CheckCommand("9pex") /\ CheckCommand("9pserve")
     THEN pc' = "serve_addr" /\ UNCHANGED <<outcome, exitCode>>
     ELSE Die
  /\ UNCHANGED <<world, sess, command, args, locals, intr, hist>>

\* "Build command": choose the address and, for a Unix socket, remove an
\* existing entry at the path.
ServeBuildAddr ==
  /\ pc = "serve_addr"
  /\ addr' = ServeAddr(args)
  /\ IF PortRequested(args)
     THEN /\ pc' = "serve_spawn"
          /\ UNCHANGED <<fs, hist, outcome, exitCode>>
     ELSE LET r == ClearStale(args.socket, fs) IN
          IF r.raised
          THEN Raise /\ UNCHANGED <<fs, hist>>
          ELSE /\ fs' = r.entry
               /\ hist' = IF r.removed THEN Log("stale_removed") ELSE hist
               /\ pc' = "serve_spawn"
               /\ UNCHANGED <<outcome, exitCode>>
  /\ UNCHANGED <<env, pipes, sess, command, args, server_proc, consumer,
                 pending, intr>>

\* Mutant: the " &" is not appended, the daemon branch runs the pipeline in
\* the foreground and waits for it.
ServeSpawnDaemon_NoAmpersand ==
  /\ pc = "serve_spawn"
  /\ args.daemon
  /\ pipes' = Append(pipes, SpawnPipe("fg", addr, OrchPgid))
  /\ hist' = [Log("pipeline_spawned") EXCEPT !.spawned = Len(pipes) + 1]
  /\ pc' = "serve_fg_wait"
  /\ UNCHANGED <<env, fs, sess, command, args, locals, outcome, exitCode, intr>>

\* args.daemon: os.system(cmd + " &") returns as soon as the shell has put
\* the pair in the background.  The job stays in the orchestrator's group.
ServeSpawnDaemon ==
  /\ pc = "serve_spawn"
  /\ args.daemon
  /\ pipes' = Append(pipes, SpawnPipe("daemon", addr, OrchPgid))
  /\ hist' = [Log("pipeline_spawned") EXCEPT !.spawned = Len(pipes) + 1]
  /\ pc' = "serve_settle"
  /\ UNCHANGED <<env, fs, sess, command, args, locals, outcome, exitCode, intr>>

\* time.sleep(0.5) elapses; the prints follow and do_run returns.
ServeDaemonSettle ==
  /\ pc = "serve_settle"
  /\ Return("returned")
  /\ hist' = Log("returned")
  /\ UNCHANGED <<world, sess, command, args, locals, intr>>

\* SIGINT during time.sleep(0.5): KeyboardInterrupt, caught by nobody.  The
\* background pair ignores a terminal SIGINT.
InterruptServeSettle(kind) ==
  /\ pc = "serve_settle"
  /\ intr < MaxInterrupts
  /\ intr' = intr + 1
  /\ hist' = [hist EXCEPT !.intrAt = pc]
  /\ pipes' = IF kind = "tty" THEN TtySigint(pipes, OrchPgid) ELSE pipes
  /\ Raise
  /\ UNCHANGED <<env, fs, sess, command, args, locals>>

\* Foreground: the try block is entered, os.system(cmd) starts the shell in
\* the orchestrator's own process group and blocks in system(3).
ServeSpawnFg ==
  /\ pc = "serve_spawn"
  /\ ~args.daemon
  /\ pipes' = Append(pipes, SpawnPipe("fg", addr, OrchPgid))
  /\ hist' = [Log("pipeline_spawned") EXCEPT !.spawned = Len(pipes) + 1]
  /\ pc' = "serve_fg_wait"
  /\ UNCHANGED <<env, fs, sess, command, args, locals, outcome, exitCode, intr>>

\* SIGINT after the try block was entered and before system(3) is called:
\* KeyboardInterrupt reaches the except clause ("Server stopped").
InterruptServeFgTry(kind) ==
  /\ pc = "serve_spawn"
  /\ ~args.daemon
  /\ intr < MaxInterrupts
  /\ intr' = intr + 1
  /\ hist' = [Log("returned") EXCEPT !.intrAt = pc]
  /\ Return("interrupted")
  /\ UNCHANGED <<world, sess, command, args, locals>>

\* SIGINT while blocked in os.system: system(3) ignores SIGINT in the
\* caller for the duration of the command, so no KeyboardInterrupt is
\* raised.  A terminal SIGINT also reaches the pipeline, which shares the
\* orchestrator's group; a SIGINT sent to the orchestrator alone is lost.
InterruptServeFgWait(kind) ==
  /\ pc = "serve_fg_wait"
  /\ intr < MaxInterrupts
  /\ intr' = intr + 1
  /\ hist' = [hist EXCEPT !.intrAt = pc]
  /\ pipes' = IF kind = "tty" THEN TtySigint(pipes, OrchPgid) ELSE pipes
  /\ UNCHANGED <<env, fs, sess, command, args, locals, ending>>

\* os.system returns when the shell has terminated; do_run then returns.
ServeFgReturn ==
  /\ pc = "serve_fg_wait"
  /\ pipes[hist.spawned].shell # "running"
  /\ Return("returned")
  /\ hist' = Log("returned")
  /\ UNCHANGED <<world, sess, command, args, locals, intr>>

\* ------------------------------------------------------ NinePRun.do_run
\* Mutant: the socket check is left out.
SocketCheck_Skipped == TRUE

\* `if not os.path.exists(args.socket)` holds false
SocketCheck == PathExists(args.socket)

\* kernel = build_dir / 'zephyr' / 'zephyr.elf'; kernel.exists()
KernelCheck == args.build_dir = "built"

\* Mutant: the removal and the spawn are not under `if args.serve_dir:`.
RunCheckServeDir_Unguarded ==
  /\ pc = "run_start"
  /\ IF args.serve_dir = "none" \/ IsDir(args.serve_dir)
     THEN pc' = "run_unlink" /\ UNCHANGED <<outcome, exitCode>>
     ELSE Die
  /\ UNCHANGED <<world, sess, command, args, locals, intr, hist>>

\* `if args.serve_dir:` and the directory check.
RunCheckServeDir ==
  /\ pc = "run_start"
  /\ IF args.serve_dir = "none"
     THEN pc' = "run_check_socket" /\ UNCHANGED <<outcome, exitCode>>
     ELSE IF IsDir(args.serve_dir)
          THEN pc' = "run_unlink" /\ UNCHANGED <<outcome, exitCode>>
          ELSE Die
  /\ UNCHANGED <<world, sess, command, args, locals, intr, hist>>

\* "Remove existing socket"
RunUnlink ==
  /\ pc = "run_unlink"
  /\ LET r == ClearStale(args.socket, fs) IN
     IF r.raised
     THEN Raise /\ UNCHANGED <<fs, hist>>
     ELSE /\ fs' = r.entry
          /\ hist' = IF r.removed THEN Log("stale_removed") ELSE hist
          /\ pc' = "run_spawn"
          /\ UNCHANGED <<outcome, exitCode>>
  /\ UNCHANGED <<env, pipes, sess, command, args, locals, intr>>

\* server_proc = subprocess.Popen("9pex ... | 9pserve unix!...", shell=True,
\* preexec_fn=os.setsid): the shell leads a new session and process group.
\* Neither tool is looked up first.
RunSpawn ==
  /\ pc = "run_spawn"
  /\ pipes' = Append(pipes,
        SpawnPipe("popen", UnixAddr(args.socket), NewPgid(Len(pipes) + 1)))
  /\ server_proc' = Len(pipes) + 1
  /\ hist' = [Log("pipeline_spawned") EXCEPT !.spawned = Len(pipes) + 1]
  /\ pc' = "run_settle"
  /\ UNCHANGED <<env, fs, sess, command, args, addr, consumer, pending,
                 outcome, exitCode, intr>>

\* time.sleep(0.5) elapses, whether or not the server has bound by then.
RunSettle ==
  /\ pc = "run_settle"
  /\ pc' = "run_check_socket"
  /\ hist' = Log("settled")
  /\ UNCHANGED <<world, sess, command, args, locals, outcome, exitCode, intr>>

\* SIGINT during time.sleep(0.5): KeyboardInterrupt outside any try block.
\* The pipeline has its own session, so no terminal signal reaches it.
InterruptRunSettle(kind) ==
  /\ pc = "run_settle"
  /\ intr < MaxInterrupts
  /\ intr' = intr + 1
  /\ hist' = [hist EXCEPT !.intrAt = pc]
  /\ pipes' = IF kind = "tty" THEN TtySigint(pipes, OrchPgid) ELSE pipes
  /\ Raise
  /\ UNCHANGED <<env, fs, sess, command, args, locals>>

\* "Check socket exists"
RunCheckSocket ==
  /\ pc = "run_check_socket"
  /\ IF SocketCheck
     THEN /\ pc' = "run_check_kernel"
          /\ hist' = [Log("socket_observed") EXCEPT !.sockAtCheck =
                        IF args.socket = SockPath /\ fs.kind # "none"
                        THEN "found" ELSE "missing"]
          /\ UNCHANGED <<pipes, outcome, exitCode>>
     ELSE /\ pipes' = IF server_proc # 0 THEN Terminate(pipes, server_proc)
                      ELSE pipes
          /\ hist' = [hist EXCEPT !.sockAtCheck =
                        IF args.socket = SockPath /\ fs.kind # "none"
                        THEN "found" ELSE "missing"]
          /\ Die
  /\ UNCHANGED <<env, fs, sess, command, args, locals, intr>>

\* "Find build directory" and the kernel check
RunCheckKernel ==
  /\ pc = "run_check_kernel"
  /\ IF KernelCheck
     THEN pc' = "run_consumer" /\ UNCHANGED <<pipes, outcome, exitCode>>
     ELSE /\ pipes' = IF server_proc # 0 THEN Terminate(pipes, server_proc)
                      ELSE pipes
          /\ Die
  /\ UNCHANGED <<env, fs, sess, command, args, locals, intr, hist>>

\* try: subprocess.run(cmd) starts QEMU.  A missing qemu-system-i386 makes
\* Popen raise FileNotFoundError inside the try block.
RunConsumerSpawn ==
  /\ pc = "run_consumer"
  /\ IF CheckCommand("qemu-system-i386")
     THEN /\ consumer' = [state |-> "running", code |-> 0]
          /\ hist' = [Log("consumer_spawned") EXCEPT !.consumers = @ + 1]
          /\ pc' = "run_wait"
          /\ UNCHANGED pending
     ELSE /\ pending' = "raised"
          /\ pc' = "run_finally"
          /\ UNCHANGED <<consumer, hist>>
  /\ UNCHANGED <<world, sess, command, args, addr, server_proc, outcome,
                 exitCode, intr>>

\* QEMU exits with code c and subprocess.run returns; its CompletedProcess
\* is dropped.
RunConsumerExits(c) ==
  /\ pc = "run_wait"
  /\ consumer' = [state |-> "exited", code |-> c]
  /\ pending' = "returned"
  /\ hist' = Log("consumer_exited")
  /\ pc' = "run_finally"
  /\ UNCHANGED <<world, sess, command, args, addr, server_proc, outcome,
                 exitCode, intr>>

\* SIGINT while subprocess.run waits: it kills QEMU and re-raises
\* KeyboardInterrupt, which the except clause catches ("QEMU stopped").
InterruptRunWait(kind) ==
  /\ pc = "run_wait"
  /\ intr < MaxInterrupts
  /\ intr' = intr + 1
  /\ consumer' = [consumer EXCEPT !.state = "killed"]
  /\ pending' = "interrupted"
  /\ hist' = [hist EXCEPT !.intrAt = pc]
  /\ pipes' = IF kind = "tty" THEN TtySigint(pipes, OrchPgid) ELSE pipes
  /\ pc' = "run_finally"
  /\ UNCHANGED <<env, fs, sess, command, args, addr, server_proc, outcome,
                 exitCode>>

\* Mutant: no finally clause, the pipeline is left alone.
RunFinally_NoTeardown ==
  /\ pc = "run_finally"
  /\ IF pending = "raised"
     THEN Raise /\ UNCHANGED hist
     ELSE Return(pending) /\ hist' = Log("returned")
  /\ UNCHANGED <<world, sess, command, args, locals, intr>>

\* Mutant: the shell is reaped (server_proc.poll()) before the teardown, so
\* that os.getpgid raises ProcessLookupError once the shell has exited.
RunFinally_Reaped ==
  /\ pc = "run_finally"
  /\ IF server_proc # 0 /\ pipes[server_proc].shell # "running"
     THEN Raise /\ UNCHANGED <<pipes, hist>>
     ELSE /\ pipes' \in IF server_proc # 0
                        THEN {Killpg(pipes, server_proc),
                              KillpgSurvived(pipes, server_proc)}
                        ELSE {pipes}
          /\ LET h == IF server_proc # 0 THEN Log("group_signalled") ELSE hist
             IN  IF pending = "raised"
                 THEN Raise /\ hist' = h
                 ELSE Return(pending)
                      /\ hist' = [h EXCEPT !.trace = Append(@, "returned")]
  /\ UNCHANGED <<env, fs, sess, command, args, locals, intr>>

\* Mutant: server_proc.wait() after the signal, do_run returns only when
\* the shell of the pipeline has exited.
RunFinally_Waits ==
  IF server_proc # 0 /\ pipes[server_proc].grpSig = 0
  THEN /\ pc = "run_finally"
       /\ pipes' \in {Killpg(pipes, server_proc),
                      KillpgSurvived(pipes, server_proc)}
       /\ hist' = Log("group_signalled")
       /\ UNCHANGED <<env, fs, sess, command, args, locals, ending, intr>>
  ELSE /\ pc = "run_finally"
       /\ server_proc # 0 => ~Running(pipes[server_proc])
       /\ IF pending = "raised"
          THEN Raise /\ UNCHANGED hist
          ELSE Return(pending) /\ hist' = Log("returned")
       /\ UNCHANGED <<world, sess, command, args, locals, intr>>

\* finally: `if server_proc:` os.killpg(...); then do_run returns, or the
\* exception raised in the try block goes on.  os.killpg returns as soon as
\* the signal is sent, whatever the processes of the group do with it.
RunFinally ==
  /\ pc = "run_finally"
  /\ pipes' \in IF server_proc # 0
                THEN {Killpg(pipes, server_proc),
                      KillpgSurvived(pipes, server_proc)}
                ELSE {pipes}
  /\ LET h == IF server_proc # 0 THEN Log("group_signalled") ELSE hist
     IN  IF pending = "raised"
         THEN Raise /\ hist' = h
         ELSE Return(pending) /\ hist' = [h EXCEPT !.trace = Append(@, "returned")]
  /\ UNCHANGED <<env, fs, sess, command, args, locals, intr>>

\* ------------------------------------------------- the pipeline's processes
\* 9pserve can announce its address when nothing occupies it.
CanBind(i) ==
  LET a == pipes[i].addr IN
    \/ a.kind = "unix" /\ a.path = SockPath /\ fs.kind = "none"
    \/ /\ a.kind = "tcp" /\ a.port > 0
       /\ \A j \in 1..Len(pipes) : Live(pipes[j]) => pipes[j].addr # a

\* 9pserve binds its address; for a Unix socket it creates the socket file.
ServerBind(i) ==
  /\ pipes[i].server = "running" /\ ~pipes[i].bound
  /\ CanBind(i)
  /\ pipes' = [pipes EXCEPT ![i].bound = TRUE]
  /\ fs' = IF pipes[i].addr.kind = "unix"
           THEN [kind |-> "socket", owner |-> i] ELSE fs
  /\ UNCHANGED <<env, sess, command, args, locals, ending, intr, hist>>

\* 9pserve cannot announce its address (empty path, occupied path, bad
\* port) and exits.
ServerBindFails(i) ==
  /\ pipes[i].server = "running" /\ ~pipes[i].bound
  /\ ~CanBind(i)
  /\ pipes' = [pipes EXCEPT ![i].server = "exited"]
  /\ UNCHANGED <<env, fs, sess, command, args, locals, ending, intr, hist>>

\* The pair ends on its own: the children are chained by a pipe, so when
\* one exits the other meets end-of-file or a broken pipe and exits too.
\* The socket file stays behind.
Exited(st) == IF st = "running" THEN "exited" ELSE st

PipelineExits(i) ==
  /\ Running(pipes[i])
  /\ pipes' = [pipes EXCEPT ![i].exporter = Exited(@), ![i].server = Exited(@)]
  /\ UNCHANGED <<env, fs, sess, command, args, locals, ending, intr, hist>>

\* The shell of a foreground pipeline exits once both children are gone.
ShellExit(i) ==
  /\ pipes[i].shell = "running"
  /\ ~Running(pipes[i])
  /\ pipes' = [pipes EXCEPT ![i].shell = "exited"]
  /\ UNCHANGED <<env, fs, sess, command, args, locals, ending, intr, hist>>

\* ------------------------------------------------------------------ Next
Next ==
  \/ \E dir \in {"ok", "missing"}, sock \in Paths, daemon \in BOOLEAN :
       \/ InvokeServe(dir, sock, FALSE, 0, daemon)
       \/ \E port \in Ports : InvokeServe(dir, sock, TRUE, port, daemon)
  \/ \E dir \in {"none", "ok", "missing"}, sock \in Paths,
        build \in {"built", "unbuilt"} : InvokeRun(dir, sock, build)
  \/ ServeCheckDir
  \/ ServeCheckTools
  \/ ServeBuildAddr
  \/ ServeSpawnDaemon
  \/ ServeDaemonSettle
  \/ ServeSpawnFg
  \/ ServeFgReturn
  \/ RunCheckServeDir
  \/ RunUnlink
  \/ RunSpawn
  \/ RunSettle
  \/ RunCheckSocket
  \/ RunCheckKernel
  \/ RunConsumerSpawn
  \/ \E c \in ExitCodes : RunConsumerExits(c)
  \/ RunFinally
  \/ \E kind \in SigKinds :
       \/ InterruptServeSettle(kind)
       \/ InterruptServeFgTry(kind)
       \/ InterruptServeFgWait(kind)
       \/ InterruptRunSettle(kind)
       \/ InterruptRunWait(kind)
  \/ \E i \in 1..Len(pipes) :
       \/ ServerBind(i)
       \/ ServerBindFails(i)
       \/ PipelineExits(i)
       \/ ShellExit(i)

Spec == Init /\ [][Next]_vars

\* ================================================================ claims
\* The pipeline this invocation spawned (hist.spawned # 0).
Mine == pipes[hist.spawned]
RunDone == command = "9p-run" /\ pc = "done"
ServeDone == command = "9p-serve" /\ pc = "done"
Happened(e) == \E k \in 1..Len(hist.trace) : hist.trace[k] = e
ToolsInstalled == {"9pex", "9pserve"} \subseteq env.tools
Failed == outcome \in {"died", "raised"}

\* C1: however 9p-run ends after it started its own pipeline (consumer
\* exited, consumer interrupted, socket not found, kernel not found), the
\* pipeline's whole process group has been sent a termination signal
\* exactly once when the call is over.  (Stated for an installation that has
\* both tools and for the default socket path.)
C1_GroupSignalledOnce ==
  (/\ RunDone /\ hist.spawned # 0
   /\ outcome \in {"returned", "interrupted", "died"}
   /\ ToolsInstalled /\ args.socket = SockPath)
    => Mine.grpSig = 1

\* C2: an interrupt delivered at a blocking point (settle delay after the
\* spawn, wait on the consumer, wait on the foreground pipeline) ends the
\* invocation as Interrupted, not as an unhandled error, with every
\* pipeline it owns torn down.
C2_InterruptTearsDown ==
  (/\ pc = "done" /\ hist.intrAt \in {"run_settle", "run_wait", "serve_fg_wait"}
   /\ ToolsInstalled /\ args.socket = SockPath)
    => /\ outcome = "interrupted"
       /\ hist.spawned # 0 => (Mine.grpSig > 0 \/ ~Running(Mine))

\* C3: 9p-run spawns the consumer only if the socket existed and the kernel
\* existed when they were checked; when either check fails the invocation
\* fails and no consumer was spawned.
C3_ConsumerOnlyAfterChecks ==
  command = "9p-run" =>
    /\ hist.consumers <= 1
    /\ (hist.consumers > 0 \/ consumer.state # "none")
         => hist.sockAtCheck = "found" /\ args.build_dir = "built"
    /\ (pc = "done" /\ (\/ hist.sockAtCheck = "missing"
                        \/ hist.sockAtCheck = "found" /\ args.build_dir # "built"))
         => outcome = "died" /\ hist.consumers = 0 /\ consumer.state = "none"

\* The consumer runs after both checks passed.
C3_Witness ==
  /\ command = "9p-run" /\ consumer.state = "running"
  /\ hist.consumers = 1 /\ hist.sockAtCheck = "found"

\* C4: when the consumer exits with code c, the invocation completes and
\* reports c unmodified.
C4_ExitCodeForwarded ==
  (RunDone /\ consumer.state = "exited")
    => outcome = "returned" /\ exitCode = consumer.code

\* C5: in both workflows the pipeline is spawned only if the directory is a
\* directory and both 9pex and 9pserve resolve; a failed precondition ends
\* the invocation as failed with nothing started and no consumer.
C5_SpawnOnlyWithDirAndTools ==
  LET dir == IF command = "9p-run" THEN args.serve_dir ELSE args.directory
      ok == dir = "ok" /\ "9pex" \in env.tools /\ "9pserve" \in env.tools
  IN  /\ hist.spawned # 0 => ok
      /\ (pc = "done" /\ ~ok /\ dir # "none")
           => Failed /\ hist.spawned = 0 /\ hist.consumers = 0

\* C6: at most one live server is bound to a Unix socket path at any time,
\* also when a pipeline is started on the path of a running one (here: of
\* a daemon pipeline, which nobody tore down).
C6_OneLiveBindingPerPath ==
  \A i, j \in 1..Len(pipes) :
    (/\ i < j /\ pipes[i].mode = "daemon" /\ pipes[i].exporter = "running"
     /\ Live(pipes[i]) /\ Live(pipes[j]) /\ pipes[i].addr.kind = "unix")
      => pipes[i].addr # pipes[j].addr

\* C7: 9p-serve rejects an empty socket path and a port <= 0 with a failure
\* before any socket is removed or any process is started.
InvalidEndpoint ==
  IF args.port_given THEN args.port <= 0 ELSE args.socket = ""

C7_InvalidEndpointRejected ==
  (command = "9p-serve" /\ InvalidEndpoint)
    => /\ hist.spawned = 0
       /\ ~Happened("stale_removed")
       /\ pc = "done" => Failed

\* C8: foreground 9p-serve interrupted while it waits on the pipeline
\* returns Interrupted with exporter and server no longer running.
C8_ForegroundInterrupted ==
  (ServeDone /\ ~args.daemon /\ ~InvalidEndpoint /\ hist.intrAt = "serve_fg_wait")
    => outcome = "interrupted" /\ ~Running(Mine)

\* C9: in 9p-run with --serve-dir, a valid directory and a kernel, the
\* events that occur, occur in the order: stale socket removed, pipeline
\* spawned, settle delay elapsed, socket observed, consumer spawned,
\* consumer exited, process group signalled, returned.  The consumer is
\* spawned only after the socket was observed to exist after the spawn, and
\* a run whose consumer exits shows the whole sequence, the group having
\* been signalled once.
Order == <<"stale_removed", "pipeline_spawned", "settled", "socket_observed",
           "consumer_spawned", "consumer_exited", "group_signalled", "returned">>
Rank(e) == CHOOSE k \in 1..Len(Order) : Order[k] = e

C9_EventOrder ==
  (command = "9p-run" /\ args.serve_dir = "ok" /\ args.build_dir = "built") =>
    /\ \A i, j \in 1..Len(hist.trace) :
         i < j => Rank(hist.trace[i]) < Rank(hist.trace[j])
    /\ consumer.state # "none"
         => /\ Happened("pipeline_spawned") /\ Happened("settled")
            /\ Happened("socket_observed") /\ Happened("consumer_spawned")
            /\ hist.sockAtCheck = "found"
    /\ (pc = "done" /\ consumer.state = "exited")
         => /\ hist.trace \in {Order, Tail(Order)}
            /\ Mine.grpSig = 1

\* A complete run that did remove a stale socket first.
C9_Witness ==
  /\ RunDone /\ args.serve_dir = "ok" /\ consumer.state = "exited"
  /\ hist.trace = Order

\* C10: a daemon 9p-serve returns without waiting for the pipeline and
\* never signals it: its shell has gone at once, no process of the pipeline
\* is ever killed, and the pipeline can still be running when the call is
\* over.
C10_DaemonOutlivesCall ==
  (command = "9p-serve" /\ args.daemon /\ hist.spawned # 0) =>
    /\ Mine.shell = "exited"
    /\ Mine.grpSig = 0 /\ Mine.pidSig = 0
    /\ Mine.exporter # "killed" /\ Mine.server # "killed"

\* The call is over and exporter and server run, the server bound.
C10_Witness ==
  /\ ServeDone /\ args.daemon /\ outcome = "returned" /\ hist.spawned # 0
  /\ Mine.exporter = "running" /\ Live(Mine)

\* C11: when 9p-serve is given a TCP port, the address is rendered exactly
\* as tcp!*!<port>, whatever socket path is given too, and the invocation
\* removes no entry at the socket path.
C11_TcpPortTakesPrecedence ==
  (command = "9p-serve" /\ args.port_given)
    => /\ addr # NoAddr => addr.text = <<"tcp!*!", Str(args.port)>>
       /\ hist.spawned # 0 => Mine.addr.kind = "tcp"
       /\ ~Happened("stale_removed")

\* C12: removing a stale socket is idempotent.  Whatever is at the socket
\* path, when a first removal succeeds a second one right after it succeeds
\* too and changes nothing more; and a removal that finds nothing at the
\* path succeeds and changes nothing.
C12_CleanupIdempotent ==
  \A path \in Paths :
    LET first == ClearStale(path, fs)
        second == ClearStale(path, first.entry)
    IN  /\ ~first.raised
             => ~second.raised /\ ~second.removed /\ second.entry = first.entry
        /\ (path # SockPath \/ fs.kind = "none")
             => ~first.raised /\ ~first.removed /\ first.entry = fs

\* An invocation has just removed the entry at its socket path: the next
\* removal on this path finds nothing.
C12_Witness ==
  /\ pc \in {"serve_spawn", "run_spawn"} /\ args.socket = SockPath
  /\ Happened("stale_removed") /\ fs = NoEntry

\* C13: exporter and server start both or neither.  When exactly one of
\* them failed to start, no consumer is launched against the pipeline, and
\* when the invocation is over it has failed and the side that did start
\* no longer runs.  (Stated for invocations nobody interrupts.)
OneSideFailed ==
  hist.spawned # 0 /\ (Mine.exporter = "failed") # (Mine.server = "failed")

C13_BothOrNeither ==
  (OneSideFailed /\ hist.intrAt = "none")
    => /\ hist.consumers = 0
       /\ pc = "done" => Failed /\ ~Running(Mine)

\* C14 as stated: every pipeline, of foreground 9p-serve, of daemon 9p-serve
\* and of 9p-run --serve-dir, is in a process group of its own, different
\* from the orchestrator's group and from every other pipeline's.
Started(i) == pipes[i].mode \in {"fg", "daemon", "popen"}

OwnGroup(i) ==
  /\ pipes[i].pgid # OrchPgid
  /\ \A j \in 1..Len(pipes) : (j # i /\ Started(j)) => pipes[j].pgid # pipes[i].pgid

C14_EveryPipelineOwnGroup ==
  \A i \in 1..Len(pipes) : Started(i) => OwnGroup(i)

\* C14: the pipeline of 9p-run --serve-dir is in a process group of its own,
\* different from the orchestrator's group and from every other pipeline's,
\* so the group signal of the teardown reaches it alone.  The pipelines of
\* 9p-serve, foreground and daemon, are in the orchestrator's own group, and
\* no group signal ever reaches them.
C14_OnlyRunPipelineOwnGroup ==
  \A i \in 1..Len(pipes) :
    /\ pipes[i].mode = "popen" => OwnGroup(i)
    /\ pipes[i].mode \in {"fg", "daemon"}
         => pipes[i].pgid = OrchPgid /\ pipes[i].grpSig = 0

\* The teardown of 9p-run has signalled its pipeline's group while the
\* pipeline of an earlier daemon 9p-serve runs on.
C14_Witness ==
  /\ RunDone /\ hist.spawned # 0 /\ Mine.mode = "popen" /\ Mine.grpSig = 1
  /\ \E i \in 1..Len(pipes) : pipes[i].mode = "daemon" /\ Running(pipes[i])

\* C15: the teardown of 9p-run does not wait.  Once the consumer has exited
\* or has been interrupted, the finally clause can always run, whatever
\* the state of the pipeline; sending the group signal and leaving do_run
\* are one step, so an invocation that has signalled is over, also when
\* the pipeline goes on running after the signal.
C15_TeardownDoesNotWait ==
  command = "9p-run" =>
    /\ pc = "run_finally" => ENABLED RunFinally
    /\ (pc = "run_finally" /\ hist.spawned # 0) => Mine.grpSig = 0
    /\ Happened("group_signalled") => pc = "done" /\ Mine.grpSig = 1

\* The invocation is over, its group signal sent, and exporter and server
\* still run.
C15_Witness ==
  /\ RunDone /\ outcome \in {"returned", "interrupted"} /\ server_proc # 0
  /\ Mine.grpSig = 1 /\ Mine.exporter = "running" /\ Live(Mine)

\* C16: when shell, exporter and server of the pipeline 9p-run owns have
\* all ended before the teardown, the teardown step changes the state of
\* no process and of no filesystem entry, raises nothing of its own, and
\* the invocation ends the way the consumer step left it (returned,
\* interrupted, or the error of the consumer's launch).
ProcState(p) == <<p.shell, p.exporter, p.server>>
AllEnded(p) == p.shell # "running" /\ ~Running(p)

C16_TeardownOfDeadPipelineNoOp ==
  [][(/\ pc = "run_finally" /\ pc' = "done"
      /\ server_proc # 0 /\ AllEnded(pipes[server_proc]))
       => /\ Len(pipes') = Len(pipes)
          /\ \A i \in 1..Len(pipes) : ProcState(pipes'[i]) = ProcState(pipes[i])
          /\ fs' = fs
          /\ outcome' = pending
          /\ exitCode' = IF pending = "raised" THEN 1 ELSE 0]_vars

\* The pipeline died while the consumer ran, the shell has exited too, the
\* consumer exited, and the invocation returned after its teardown.
C16_Witness ==
  /\ RunDone /\ server_proc # 0 /\ outcome = "returned"
  /\ consumer.state = "exited" /\ Mine.grpSig = 1
  /\ ProcState(Mine) = <<"exited", "exited", "exited">>

\* C17 as stated: 9p-run without --serve-dir owns no pipeline, removes no
\* entry at the socket path, spawns no exporter or server, and sends no
\* signal to any process or process group, its consumer included.
Reusing == command = "9p-run" /\ args.serve_dir = "none"

OwnsNothing ==
  /\ server_proc = 0 /\ hist.spawned = 0
  /\ ~Happened("stale_removed") /\ ~Happened("pipeline_spawned")
  /\ ~Happened("group_signalled")

C17_NoSignalToAnyProcess ==
  Reusing => OwnsNothing /\ consumer.state # "killed"

\* C17: 9p-run without --serve-dir owns no pipeline; none of its steps
\* removes or creates the entry at the socket path, spawns a pipeline, or
\* sends a signal to a pipeline's shell or process group, and its steps
\* other than an interrupt leave every pipeline exactly as it is.  (The one
\* signal it can send is the kill of its own consumer when the wait on the
\* consumer is interrupted.)
C17_ReuseTouchesNoPipeline ==
  /\ [](Reusing => OwnsNothing)
  /\ [][(Reusing /\ pc \notin {"idle", "done"} /\ pc' # pc)
          => /\ fs' = fs
             /\ Len(pipes') = Len(pipes)
             /\ \A i \in 1..Len(pipes) :
                  /\ pipes'[i].grpSig = pipes[i].grpSig
                  /\ pipes'[i].pidSig = pipes[i].pidSig
             /\ intr' = intr => pipes' = pipes]_vars

\* 9p-run without --serve-dir used the service of an earlier invocation,
\* was interrupted while QEMU ran, and the service is still live.
C17_Witness ==
  /\ Reusing /\ pc = "done" /\ outcome = "interrupted"
  /\ consumer.state = "killed"
  /\ \E i \in 1..Len(pipes) : Live(pipes[i]) /\ pipes[i].exporter = "running"

\* C18: a precondition that fails before the spawn (the directory of
\* 9p-serve or of 9p-run --serve-dir is missing, 9pex or 9pserve is missing
\* in 9p-serve) ends the invocation as failed with nothing spawned and the
\* entry at the socket path not removed: the checking steps leave the
\* filesystem and the processes alone, and the removal happens only in an
\* invocation whose checks all passed.
ChecksPass ==
  \/ /\ command = "9p-serve" /\ IsDir(args.directory)
     /\ CheckCommand("9pex") /\ CheckCommand("9pserve")
  \/ command = "9p-run" /\ IsDir(args.serve_dir)

PreconditionFails ==
  \/ command = "9p-serve" /\ ~ChecksPass
  \/ command = "9p-run" /\ args.serve_dir # "none" /\ ~ChecksPass

C18_RemovalOnlyAfterChecks ==
  /\ [](/\ Happened("stale_removed") => ChecksPass
        /\ (pc = "done" /\ PreconditionFails)
             => /\ outcome = "died" /\ hist.spawned = 0
                /\ ~Happened("stale_removed"))
  /\ [][(pc \in {"serve_check_dir", "serve_check_tools", "run_start"}
          /\ pc' # pc) => fs' = fs /\ pipes' = pipes]_vars

\* 9p-serve on a Unix socket died for a missing tool and the stale entry
\* at the socket path is still there.
C18_Witness ==
  /\ ServeDone /\ outcome = "died" /\ IsDir(args.directory) /\ ~ChecksPass
  /\ ~args.port_given /\ args.socket = SockPath /\ fs.kind = "file"

====
